---- MODULE Spec2Model ----
(***************************************************************************)
(* A model of lightpath.py: the pipeline that resolves two hosts'          *)
(* attachment points, normalizes the controller's topology links, builds   *)
(* the switch graph, finds a shortest switch path, resolves the per-hop    *)
(* ports and pushes one static flow per hop (and per direction).           *)
(***************************************************************************)
EXTENDS Integers, Sequences, FiniteSets, TLC

(***************************************************************************)
(* Python / JSON values.  Every value carries its type tag, so that the    *)
(* duck-typed tests of the code (isinstance, truthiness, "is None") are    *)
(* tests on the tag.                                                       *)
(***************************************************************************)
JNone == [t |-> "none"]
JInt(n) == [t |-> "int", i |-> n]
JStr(s) == [t |-> "str", s |-> s]
JDict(f) == [t |-> "dict", d |-> f]
JList(l) == [t |-> "list", l |-> l]

\* Python truthiness of a value (the operand test of "or" and "not").
Truthy(v) ==
  CASE v.t = "none" -> FALSE
    [] v.t = "int" -> v.i # 0
    [] v.t = "str" -> v.s # ""
    [] v.t = "dict" -> DOMAIN v.d # {}
    [] v.t = "list" -> Len(v.l) > 0

\* dict.get(k): the value under k, None when the key is absent.
Get(e, k) == IF k \in DOMAIN e.d THEN e.d[k] ELSE JNone

\* e.get(k1) or e.get(k2) or ... : the first truthy value, else the last one.
RECURSIVE FirstOf(_, _)
FirstOf(e, keys) ==
  IF Len(keys) = 1 THEN Get(e, keys[1])
  ELSE IF Truthy(Get(e, keys[1])) THEN Get(e, keys[1])
  ELSE FirstOf(e, Tail(keys))

(***************************************************************************)
(* Decimal text.  int(str) and str(int) are computed digit by digit.       *)
(***************************************************************************)
Digits == <<"0", "1", "2", "3", "4", "5", "6", "7", "8", "9">>

IsDigit(c) == \E k \in 1..10 : Digits[k] = c

DigitVal(c) == (CHOOSE k \in 1..10 : Digits[k] = c) - 1

\* Whether every character of s is a decimal digit and s is not empty.
AllDigits(s) == Len(s) > 0 /\ \A k \in 1..Len(s) : IsDigit(SubSeq(s, k, k))

\* int(s) for a string of decimal digits.
RECURSIVE ParseDec(_)
ParseDec(s) ==
  IF Len(s) = 0 THEN 0
  ELSE 10 * ParseDec(SubSeq(s, 1, Len(s) - 1)) + DigitVal(SubSeq(s, Len(s), Len(s)))

\* str(n), and "{}".format(n).
RECURSIVE DecStr(_)
DecStr(n) ==
  IF n < 0 THEN "-" \o DecStr(0 - n)
  ELSE IF n < 10 THEN Digits[n + 1]
  ELSE DecStr(n \div 10) \o Digits[(n % 10) + 1]

\* int(v) succeeds (or int(str(v)) does), lines 100-106.
IntOk(v) == v.t = "int" \/ (v.t = "str" /\ AllDigits(v.s))

IntOf(v) == IF v.t = "int" THEN v.i ELSE ParseDec(v.s)

\* str(v) of a switch id as the controller reports it.
Str(v) ==
  CASE v.t = "str" -> v.s
    [] v.t = "int" -> DecStr(v.i)
    [] v.t = "none" -> "None"

(***************************************************************************)
(* Topology Normalizer: get_topology_links.                                *)
(***************************************************************************)
SrcKeys == <<"src", "src-switch", "srcSwitch", "source", "src_switch", "src_switch_dpid">>
DstKeys == <<"dst", "dst-switch", "dstSwitch", "destination", "dst_switch", "dst_switch_dpid">>
SrcPortKeys == <<"src-port", "src_port", "srcPort", "port1", "srcPortNumber">>
DstPortKeys == <<"dst-port", "dst_port", "dstPort", "port2", "dstPortNumber">>
NestedKeys == <<"switchDPID", "dpid", "id">>

\* get_port(e, *keys): the first alias whose value is present and parses.
RECURSIVE get_port(_, _)
get_port(e, keys) ==
  IF keys = <<>> THEN JNone
  ELSE LET v == Get(e, keys[1]) IN
       IF v.t = "none" THEN get_port(e, Tail(keys))
       ELSE IF IntOk(v) THEN JInt(IntOf(v))
       ELSE get_port(e, Tail(keys))

\* isinstance(src, dict): recover the id from the nested object.
Unnest(v) == IF v.t = "dict" THEN FirstOf(v, NestedKeys) ELSE v

\* One iteration of the loop over raw_links: the links it appends (none or one).
NormalizeEntry(entry) ==
  IF entry.t # "dict" THEN <<>>
  ELSE LET src == Unnest(FirstOf(entry, SrcKeys))
           dst == Unnest(FirstOf(entry, DstKeys))
           src_port == get_port(entry, SrcPortKeys)
           dst_port == get_port(entry, DstPortKeys)
       IN IF ~Truthy(src) \/ ~Truthy(dst) THEN <<>>
          ELSE << [src |-> Str(src), src_port |-> src_port,
                   dst |-> Str(dst), dst_port |-> dst_port] >>

\* The loop with "break" where the code has "continue".
RECURSIVE NormalizeAll_StopAtDropped(_)
NormalizeAll_StopAtDropped(entries) ==
  IF entries = <<>> THEN <<>>
  ELSE IF NormalizeEntry(Head(entries)) = <<>> THEN <<>>
  ELSE NormalizeEntry(Head(entries)) \o NormalizeAll_StopAtDropped(Tail(entries))

RECURSIVE NormalizeAll(_)
NormalizeAll(entries) ==
  IF entries = <<>> THEN <<>>
  ELSE NormalizeEntry(Head(entries)) \o NormalizeAll(Tail(entries))

\* The payload is a list, or an object holding the list under "links".
get_topology_links(raw) ==
  LET raw_links == IF raw.t = "dict" /\ "links" \in DOMAIN raw.d THEN raw.d["links"] ELSE raw
  IN IF raw_links.t # "list" THEN <<>> ELSE NormalizeAll(raw_links.l)

(***************************************************************************)
(* Graph Builder: build_switch_graph.  The graph is a defaultdict: a       *)
(* function whose domain is the set of keys that were inserted.            *)
(***************************************************************************)
GraphGet(graph, sw) == IF sw \in DOMAIN graph THEN graph[sw] ELSE <<>>

\* graph[sw].append(entry)
GraphAppend(graph, sw, entry) ==
  [k \in DOMAIN graph \cup {sw} |->
     IF k = sw THEN Append(GraphGet(graph, sw), entry) ELSE graph[k]]

\* The loop body with the reverse entry's ports left in the link's order.
AddLink_PortsNotSwapped(graph, link) ==
  IF link.src = "" \/ link.dst = "" THEN graph
  ELSE GraphAppend(GraphAppend(graph, link.src, <<link.dst, link.src_port, link.dst_port>>),
                   link.dst, <<link.src, link.src_port, link.dst_port>>)

\* One iteration of the loop over links: both directions of the link.
AddLink(graph, link) ==
  IF link.src = "" \/ link.dst = "" THEN graph
  ELSE GraphAppend(GraphAppend(graph, link.src, <<link.dst, link.src_port, link.dst_port>>),
                   link.dst, <<link.src, link.dst_port, link.src_port>>)

RECURSIVE BuildFrom(_, _)
BuildFrom(graph, links) ==
  IF links = <<>> THEN graph ELSE BuildFrom(AddLink(graph, Head(links)), Tail(links))

build_switch_graph(links) == BuildFrom(<<>>, links)

(***************************************************************************)
(* Path Engine: shortest_switch_path, a breadth-first search over a queue  *)
(* of paths.                                                               *)
(***************************************************************************)
\* The for loop without visited.add(nbr).
RECURSIVE Expand_NoMark(_, _, _, _, _)
Expand_NoMark(entries, path, q, visited, dst_sw) ==
  IF entries = <<>> THEN [found |-> FALSE, q |-> q, visited |-> visited]
  ELSE LET nbr == entries[1][1] IN
       IF nbr \in visited THEN Expand_NoMark(Tail(entries), path, q, visited, dst_sw)
       ELSE IF nbr = dst_sw
            THEN [found |-> TRUE, newpath |-> Append(path, nbr), q |-> q,
                  visited |-> visited]
       ELSE Expand_NoMark(Tail(entries), path, Append(q, Append(path, nbr)),
                          visited, dst_sw)

\* The for loop with newpath = [node, nbr]: the way to the node is dropped.
RECURSIVE Expand_PathFromNode(_, _, _, _, _)
Expand_PathFromNode(entries, path, q, visited, dst_sw) ==
  IF entries = <<>> THEN [found |-> FALSE, q |-> q, visited |-> visited]
  ELSE LET nbr == entries[1][1] IN
       IF nbr \in visited THEN Expand_PathFromNode(Tail(entries), path, q, visited, dst_sw)
       ELSE IF nbr = dst_sw
            THEN [found |-> TRUE, newpath |-> <<path[Len(path)], nbr>>, q |-> q,
                  visited |-> visited \cup {nbr}]
       ELSE Expand_PathFromNode(Tail(entries), path,
                                Append(q, <<path[Len(path)], nbr>>),
                                visited \cup {nbr}, dst_sw)

\* The for loop over the adjacency entries of the popped path's last node.
RECURSIVE Expand(_, _, _, _, _)
Expand(entries, path, q, visited, dst_sw) ==
  IF entries = <<>> THEN [found |-> FALSE, q |-> q, visited |-> visited]
  ELSE LET nbr == entries[1][1] IN
       IF nbr \in visited THEN Expand(Tail(entries), path, q, visited, dst_sw)
       ELSE IF nbr = dst_sw
            THEN [found |-> TRUE, newpath |-> Append(path, nbr), q |-> q,
                  visited |-> visited \cup {nbr}]
       ELSE Expand(Tail(entries), path, Append(q, Append(path, nbr)),
                   visited \cup {nbr}, dst_sw)

\* The search with "return []" for an exhausted queue.
RECURSIVE BfsLoop_EmptyPath(_, _, _, _)
BfsLoop_EmptyPath(graph, q, visited, dst_sw) ==
  IF q = <<>> THEN JList(<<>>)
  ELSE LET path == Head(q)
           res == Expand(GraphGet(graph, path[Len(path)]), path, Tail(q), visited, dst_sw)
       IN IF res.found THEN JList(res.newpath)
          ELSE BfsLoop_EmptyPath(graph, res.q, res.visited, dst_sw)

\* The while loop: pop a path, expand its last node.
RECURSIVE BfsLoop(_, _, _, _)
BfsLoop(graph, q, visited, dst_sw) ==
  IF q = <<>> THEN JNone
  ELSE LET path == Head(q)
           res == Expand(GraphGet(graph, path[Len(path)]), path, Tail(q), visited, dst_sw)
       IN IF res.found THEN JList(res.newpath)
          ELSE BfsLoop(graph, res.q, res.visited, dst_sw)

\* The search without the test for equal endpoints.
shortest_switch_path_NoEqualTest(graph, src_sw, dst_sw) ==
  BfsLoop(graph, <<<<src_sw>>>>, {src_sw}, dst_sw)

shortest_switch_path(graph, src_sw, dst_sw) ==
  IF src_sw = dst_sw THEN JList(<<src_sw>>)
  ELSE BfsLoop(graph, <<<<src_sw>>>>, {src_sw}, dst_sw)

(***************************************************************************)
(* Port Resolver: path_ports_for_switches.                                 *)
(***************************************************************************)
\* The inner loops: the local port of the first entry of sw toward nbr.
RECURSIVE FirstPortToward(_, _)
FirstPortToward(entries, target) ==
  IF entries = <<>> THEN JNone
  ELSE IF entries[1][1] = target THEN entries[1][2]
  ELSE FirstPortToward(Tail(entries), target)

\* The hop's ports with in_port read from the neighbour's side of the entry.
RECURSIVE FirstFarPortToward(_, _)
FirstFarPortToward(entries, target) ==
  IF entries = <<>> THEN JNone
  ELSE IF entries[1][1] = target THEN entries[1][3]
  ELSE FirstFarPortToward(Tail(entries), target)

HopPair_InPortFromFarSide(graph, switch_path, k) ==
  LET sw == switch_path[k]
      in_port == IF k > 1 THEN FirstFarPortToward(GraphGet(graph, sw), switch_path[k - 1])
                 ELSE JNone
      out_port == IF k < Len(switch_path)
                  THEN FirstPortToward(GraphGet(graph, sw), switch_path[k + 1])
                  ELSE JNone
  IN <<in_port, out_port>>

\* The (in_port, out_port) computed for the hop at index k of the path.
HopPair(graph, switch_path, k) ==
  LET sw == switch_path[k]
      in_port == IF k > 1 THEN FirstPortToward(GraphGet(graph, sw), switch_path[k - 1])
                 ELSE JNone
      out_port == IF k < Len(switch_path)
                  THEN FirstPortToward(GraphGet(graph, sw), switch_path[k + 1])
                  ELSE JNone
  IN <<in_port, out_port>>

\* hop_ports[sw] = value: a later assignment replaces an earlier one.
DictSet(dict, key, value) == (key :> value) @@ dict

RECURSIVE HopPortsFrom(_, _, _, _)
HopPortsFrom(hop_ports, graph, switch_path, k) ==
  IF k > Len(switch_path) THEN hop_ports
  ELSE HopPortsFrom(DictSet(hop_ports, switch_path[k], HopPair(graph, switch_path, k)),
                    graph, switch_path, k + 1)

path_ports_for_switches(graph, switch_path) == HopPortsFrom(<<>>, graph, switch_path, 1)

(***************************************************************************)
(* Device Locator: get_devices, find_device_by_name, pick_attachment and   *)
(* the hostname heuristic of main.                                         *)
(***************************************************************************)
\* A call that ends in an exception main does not catch.
Raised == [t |-> "raise"]

\* get_devices: the directory as a list of dicts, or ValueError.
WrapDevice(x) == IF x.t = "dict" THEN x ELSE JDict("raw" :> x)

get_devices(data) ==
  CASE data.t = "dict" -> JList(<<data>>)
    [] data.t = "list" ->
         IF \A k \in 1..Len(data.l) : data.l[k].t = "str"
         THEN JList([k \in 1..Len(data.l) |-> JDict("id" :> data.l[k])])
         ELSE JList([k \in 1..Len(data.l) |-> WrapDevice(data.l[k])])
    [] OTHER -> Raised

\* s.lstrip('h')
RECURSIVE LStripH(_)
LStripH(s) ==
  IF Len(s) > 0 /\ SubSeq(s, 1, 1) = "h" THEN LStripH(SubSeq(s, 2, Len(s))) ELSE s

\* s.strip(), for blanks.
RECURSIVE Strip(_)
Strip(s) ==
  IF Len(s) > 0 /\ SubSeq(s, 1, 1) = " " THEN Strip(SubSeq(s, 2, Len(s)))
  ELSE IF Len(s) > 0 /\ SubSeq(s, Len(s), Len(s)) = " " THEN Strip(SubSeq(s, 1, Len(s) - 1))
  ELSE s

\* s.endswith(suffix)
EndsWith(s, suffix) ==
  Len(suffix) <= Len(s) /\ SubSeq(s, Len(s) - Len(suffix) + 1, Len(s)) = suffix

\* int(hostname.lstrip('h')), None when it raises (the host names of the model
\* carry no sign, blank or underscore, which int() would also accept).
HostNum(hostname) ==
  IF AllDigits(LStripH(hostname)) THEN JInt(ParseDec(LStripH(hostname))) ELSE JNone

HexDigits == <<"0", "1", "2", "3", "4", "5", "6", "7", "8", "9", "a", "b", "c", "d", "e", "f">>

RECURSIVE HexStr(_)
HexStr(n) == IF n < 16 THEN HexDigits[n + 1] ELSE HexStr(n \div 16) \o HexDigits[(n % 16) + 1]

\* '{:02x}'.format(n) and '{:02d}'.format(n)
Pad2(s) == IF Len(s) < 2 THEN "0" \o s ELSE s

\* A str becomes a one-element list (isinstance(ipv4s, str)).
AsList(v) == IF v.t = "str" THEN JList(<<v>>) ELSE v

\* The loop over ipv4s: some address ends in ".<host_num>" (a non-str raises
\* inside the try and is passed over).
IpMatches(dev, host_num) ==
  LET ipv4s == AsList(FirstOf(dev, <<"ipv4", "ipv4Address", "ip", "ipv4Addresses">>))
  IN ipv4s.t = "list" /\ host_num.t = "int" /\
     \E k \in 1..Len(ipv4s.l) :
        ipv4s.l[k].t = "str" /\ EndsWith(Strip(ipv4s.l[k].s), "." \o DecStr(host_num.i))

\* The loop over macs: "match", "none", or "raise" when a non-str address is
\* met before a match (m.strip() is outside any try).
RECURSIVE MacScan(_, _)
MacScan(macs, suffix) ==
  IF macs = <<>> THEN "none"
  ELSE IF Head(macs).t # "str" THEN "raise"
  ELSE IF EndsWith(Strip(Head(macs).s), suffix) THEN "match"
  ELSE MacScan(Tail(macs), suffix)

MacResult(dev, host_num) ==
  LET macs == AsList(FirstOf(dev, <<"mac", "macAddress", "macs">>))
  IN IF macs.t = "list" /\ host_num.t = "int"
     THEN MacScan(macs.l, Pad2(HexStr(host_num.i)))
     ELSE "none"

RECURSIVE FindFrom(_, _)
FindFrom(devices, host_num) ==
  IF devices = <<>> THEN JNone
  ELSE LET dev == Head(devices) IN
       IF dev.t # "dict" THEN FindFrom(Tail(devices), host_num)
       ELSE IF IpMatches(dev, host_num) THEN dev
       ELSE IF MacResult(dev, host_num) = "match" THEN dev
       ELSE IF MacResult(dev, host_num) = "raise" THEN Raised
       ELSE FindFrom(Tail(devices), host_num)

find_device_by_name(devices, hostname) == FindFrom(devices, HostNum(hostname))

\* An attachment point (switch, port).
AP(sw, port) == [t |-> "tuple", sw |-> sw, port |-> port]

\* pick_attachment(dev, host_label): point.get on a non-dict raises.
pick_attachment(dev) ==
  IF dev.t = "none" THEN JNone
  ELSE LET ap == FirstOf(dev, <<"attachmentPoint", "attachmentPoints",
                                "attachment_point", "attachment">>)
       IN IF ap.t = "list" /\ Len(ap.l) > 0
          THEN LET point == ap.l[1] IN
               IF point.t # "dict" THEN Raised
               ELSE LET sw == FirstOf(point, <<"switchDPID", "switch", "switchId", "dpid">>)
                        port == FirstOf(point, <<"port", "portNumber", "port_no", "port_no">>)
                    IN IF IntOk(port)
                       THEN AP(Str(sw), IntOf(port))
                       ELSE JNone
          ELSE JNone

\* heuristic(hostname): hN -> switch 00:..:0N, port 1.
DefaultPort == 1

heuristic(hostname) ==
  LET n == HostNum(hostname)
  IN IF n.t = "none" THEN JNone
     ELSE AP("00:00:00:00:00:00:00:" \o Pad2(DecStr(n.i)), DefaultPort)

\* The attachment with the heuristic asked first and the directory second.
Attachment_HeuristicFirst(devices, hostname) ==
  LET dev == find_device_by_name(devices, hostname)
      ap == IF dev = Raised THEN Raised ELSE pick_attachment(dev)
  IN IF ap = Raised THEN Raised
     ELSE IF heuristic(hostname).t = "none" THEN ap ELSE heuristic(hostname)

\* The attachment main uses for one host: the directory's, else the heuristic's.
Attachment(devices, hostname) ==
  LET dev == find_device_by_name(devices, hostname)
      ap == IF dev = Raised THEN Raised ELSE pick_attachment(dev)
  IN IF ap.t = "none" THEN heuristic(hostname) ELSE ap

(***************************************************************************)
(* Flow Installer: push_flow builds the static-flow entry and posts it.    *)
(***************************************************************************)
DefaultPriority == 32768

\* "{}".format(port): a port, or None.
Fmt(port) == IF port.t = "none" THEN "None" ELSE DecStr(port.i)

\* The flow dict push_flow posts; in_port is a key only when it is known.
push_flow(switch_dpid, flow_name, in_port, out_port, priority) ==
  ("switch" :> switch_dpid) @@ ("name" :> flow_name) @@ ("cookie" :> "0") @@
  ("priority" :> DecStr(priority)) @@ ("active" :> "true") @@
  (IF in_port.t # "none" THEN "in_port" :> DecStr(in_port.i) ELSE <<>>) @@
  ("actions" :> ("output=" \o Fmt(out_port)))

\* f"fwd_{src}_to_{dst}_{i+1}" and f"rev_{dst}_to_{src}_{i+1}", i counted from 0.
FlowName(direction, from, to, i) ==
  direction \o "_" \o from \o "_to_" \o to \o "_" \o DecStr(i + 1)

\* What requests.post can end in: a response (any status), or an exception.
PostOutcomes == {"accepted", "rejected", "neterror"}

(***************************************************************************)
(* The inputs of a run: the command line and the controller's answers.     *)
(***************************************************************************)
S1 == "00:00:00:00:00:00:00:01"
S2 == "00:00:00:00:00:00:00:02"
S3 == "00:00:00:00:00:00:00:03"
S4 == "00:00:00:00:00:00:00:04"

Hostnames == {"h1", "h2", "h3", "hx"}

\* A request that raises: requests.get fails or raise_for_status() throws.
HttpError == [t |-> "http_error"]

\* A device entry as Floodlight reports it.
Device(ip, mac, aps) ==
  JDict(("ipv4" :> ip) @@ ("mac" :> mac) @@ ("attachmentPoint" :> JList(aps)))

Point(sw, port) == JDict(("switchDPID" :> JStr(sw)) @@ ("port" :> port))

\* All three hosts learned; h1 and h2 share switch S1.
DirectoryLearned ==
  JList(<< Device(JList(<<JStr("10.0.0.1")>>), JList(<<JStr("00:00:00:00:00:01")>>),
                  <<Point(S1, JInt(1))>>),
           Device(JList(<<JStr("10.0.0.2")>>), JList(<<JStr("00:00:00:00:00:02")>>),
                  <<Point(S1, JInt(2))>>),
           Device(JStr("10.0.0.3 "), JStr("00:00:00:00:00:03"),
                  <<Point(S3, JStr("1"))>>) >>)

\* A directory of a larger network: h11 is learned, h1 has no port, h2's
\* attachment point is not an object, h3 is known by its MAC only.
DirectoryPartial ==
  JList(<< Device(JList(<<JStr("10.0.0.11")>>), JList(<<JStr("00:00:00:00:00:0b")>>),
                  <<Point(S2, JInt(4))>>),
           Device(JList(<<JStr("10.0.0.1")>>), JList(<<JStr("00:00:00:00:00:01")>>),
                  <<Point(S2, JNone)>>),
           Device(JList(<<JStr("10.0.0.2")>>), JNone, <<JStr("s1:2")>>),
           Device(JNone, JList(<<JStr("00:00:00:00:00:03")>>),
                  <<Point(S3, JInt(2))>>) >>)

\* A directory that reports h1 on port 0 of S2, and h3 on port 3 of S3.
DirectoryPortZero ==
  JList(<< Device(JList(<<JStr("10.0.0.1")>>), JList(<<JStr("00:00:00:00:00:01")>>),
                  <<Point(S2, JInt(0))>>),
           Device(JList(<<JStr("10.0.0.3")>>), JList(<<JStr("00:00:00:00:00:03")>>),
                  <<Point(S3, JInt(3))>>) >>)

DeviceResponses ==
  { DirectoryLearned, DirectoryPartial, DirectoryPortZero,
    JList(<<JStr("dev-1"), JStr("dev-2")>>), JStr("unexpected"), HttpError }

\* A link record as Floodlight reports it.
Link(src, src_port, dst, dst_port) ==
  JDict(("src-switch" :> JStr(src)) @@ ("src-port" :> src_port) @@
        ("dst-switch" :> JStr(dst)) @@ ("dst-port" :> dst_port))

L12 == Link(S1, JInt(2), S2, JInt(2))
L23 == Link(S2, JInt(3), S3, JInt(2))
L31 == Link(S3, JInt(3), S1, JInt(3))
\* A second S2-S3 link whose ports the controller does not report.
L23u == JDict(("src-switch" :> JStr(S2)) @@ ("dst-switch" :> JStr(S3)))
\* A record without a destination.
LNoDst == JDict(("src-switch" :> JStr(S1)) @@ ("src-port" :> JInt(1)))

LinkRecords == {L12, L23, L31, L23u, LNoDst}

\* The longest batch of link records a topology answer holds.
MaxLinks == 3

Batches(records, n) == UNION {[1..k -> records] : k \in 0..n}

TopologyResponses ==
  {JList(b) : b \in Batches(LinkRecords, MaxLinks)} \cup
  { JDict("links" :> JList(<<L12, L23>>)), JDict("error" :> JStr("down")), HttpError }

(***************************************************************************)
(* The run of main.                                                        *)
(***************************************************************************)
VARIABLES pc, args, devices, src_dev, dst_dev, src_ap, dst_ap, src_switch, src_port,
          dst_switch, dst_port, raw, links, graph, q, visited, sw_path, hop_ports,
          rev_path, rev_hop_ports, i, pushed, r

vars == <<pc, args, devices, src_dev, dst_dev, src_ap, dst_ap, src_switch, src_port,
          dst_switch, dst_port, raw, links, graph, q, visited, sw_path, hop_ports,
          rev_path, rev_hop_ports, i, pushed, r>>

\* The queue and the visited set of shortest_switch_path.
search == <<q, visited>>

\* The two directory entries main looks up.
devs == <<src_dev, dst_dev>>

\* The two hosts' attachment points, once main has unpacked them.
ends == <<src_ap, dst_ap, src_switch, src_port, dst_switch, dst_port>>

\* A local variable that has not been assigned yet.
Unassigned == [t |-> "unassigned"]

Unset ==
  /\ devices = Unassigned /\ src_dev = Unassigned /\ dst_dev = Unassigned
  /\ src_ap = Unassigned /\ dst_ap = Unassigned
  /\ src_switch = "" /\ src_port = Unassigned /\ dst_switch = "" /\ dst_port = Unassigned
  /\ raw = Unassigned /\ links = <<>> /\ graph = <<>> /\ sw_path = Unassigned
  /\ hop_ports = <<>> /\ rev_path = <<>> /\ rev_hop_ports = <<>> /\ i = 0
  /\ pushed = <<>> /\ r = "none"
  /\ q = <<>> /\ visited = {}

Init ==
  /\ pc = "start"
  /\ args \in [src : Hostnames, dst : Hostnames, bidirectional : BOOLEAN]
  /\ Unset

\* devices = get_devices(fl)
GetDevices ==
  /\ pc = "start"
  /\ \E resp \in DeviceResponses :
       IF resp = HttpError \/ get_devices(resp) = Raised
       THEN pc' = "crashed" /\ UNCHANGED devices
       ELSE pc' = "devices" /\ devices' = get_devices(resp)
  /\ UNCHANGED <<args, search, devs, ends, raw, links, graph, sw_path, hop_ports,
                 rev_path, rev_hop_ports, i, pushed, r>>

\* find_device_by_name, pick_attachment, the heuristic and the SystemExit.
ResolveAttachments ==
  /\ pc = "devices"
  /\ LET sd == find_device_by_name(devices.l, args.src)
         dd == find_device_by_name(devices.l, args.dst)
     IN /\ src_dev' = IF sd = Raised THEN src_dev ELSE sd
        /\ dst_dev' = IF sd = Raised \/ dd = Raised THEN dst_dev ELSE dd
  /\ LET s == Attachment(devices.l, args.src)
         d == Attachment(devices.l, args.dst)
     IN IF s = Raised \/ d = Raised
        THEN pc' = "crashed" /\ UNCHANGED ends
        ELSE /\ src_ap' = s
             /\ dst_ap' = d
             /\ IF s.t = "none" \/ d.t = "none"
                THEN /\ pc' = "exit_attachment"
                     /\ UNCHANGED <<src_switch, src_port, dst_switch, dst_port>>
                ELSE /\ pc' = "resolved"
                     /\ src_switch' = s.sw /\ src_port' = JInt(s.port)
                     /\ dst_switch' = d.sw /\ dst_port' = JInt(d.port)
  /\ UNCHANGED <<args, search, devices, raw, links, graph, sw_path, hop_ports,
                 rev_path, rev_hop_ports, i, pushed, r>>

\* The topology step without the test for an empty list of links.
GetTopology_NoEmptyExit ==
  /\ pc = "resolved"
  /\ \E resp \in TopologyResponses :
       IF resp = HttpError
       THEN pc' = "crashed" /\ UNCHANGED <<raw, links>>
       ELSE /\ raw' = resp
            /\ links' = get_topology_links(resp)
            /\ pc' = "links"
  /\ UNCHANGED <<args, search, devs, devices, ends, graph, sw_path, hop_ports,
                 rev_path, rev_hop_ports, i, pushed, r>>

\* links = get_topology_links(fl) and the empty-topology SystemExit; before it
\* exits, main fetches the raw answer once more to print it, which can raise.
GetTopology ==
  /\ pc = "resolved"
  /\ \E resp \in TopologyResponses :
       IF resp = HttpError
       THEN pc' = "crashed" /\ UNCHANGED <<raw, links>>
       ELSE /\ raw' = resp
            /\ links' = get_topology_links(resp)
            /\ IF Len(get_topology_links(resp)) = 0
               THEN \E again \in {"answered", "raised"} :
                      pc' = IF again = "answered" THEN "exit_empty" ELSE "crashed"
               ELSE pc' = "links"
  /\ UNCHANGED <<args, search, devs, devices, ends, graph, sw_path, hop_ports,
                 rev_path, rev_hop_ports, i, pushed, r>>

\* The two assignments with the first hop's ingress left as resolved.
WithHostPorts_NoIngress(ports, path, first_in, last_out) ==
  DictSet(ports, path[Len(path)], <<ports[path[Len(path)]][1], last_out>>)

\* The two assignments that put the host ports at the ends of the path.
WithHostPorts(ports, path, first_in, last_out) ==
  LET a == DictSet(ports, path[1], <<first_in, ports[path[1]][2]>>)
  IN DictSet(a, path[Len(path)], <<a[path[Len(path)]][1], last_out>>)

\* The path of main without the case of one switch for both hosts.
MainPath_NoSameSwitch(g, src_sw, dst_sw) ==
  IF src_sw = dst_sw THEN BfsLoop(g, <<<<src_sw>>>>, {src_sw}, dst_sw)
  ELSE shortest_switch_path(g, src_sw, dst_sw)

\* The switch path main goes on with: None when it exits.
MainPath(g, src_sw, dst_sw) ==
  LET found == shortest_switch_path(g, src_sw, dst_sw)
  IN IF found.t = "none" /\ src_sw = dst_sw THEN JList(<<src_sw>>) ELSE found

\* build_switch_graph, shortest_switch_path, path_ports_for_switches.
PlanPath ==
  /\ pc = "links"
  /\ LET g == build_switch_graph(links)
         path == MainPath(g, src_switch, dst_switch)
     IN /\ graph' = g
        /\ sw_path' = path
        /\ IF path.t = "none"
           THEN pc' = "exit_nopath" /\ UNCHANGED hop_ports
           ELSE /\ pc' = "fwd"
                /\ hop_ports' = WithHostPorts(path_ports_for_switches(g, path.l), path.l,
                                              src_port, dst_port)
  /\ UNCHANGED <<args, search, devs, devices, ends, raw, links, rev_path, rev_hop_ports,
                 i, pushed, r>>

\* The iteration without the substitution for an unknown egress port.
HopFlow_NoLastResort(path, ports, last_resort, name) ==
  LET sw == path[i + 1]
  IN push_flow(sw, name, ports[sw][1], ports[sw][2], DefaultPriority)

\* The flow of one iteration of an installation loop.
HopFlow(path, ports, last_resort, name) ==
  LET sw == path[i + 1]
      out_p == IF ports[sw][2].t = "none" THEN last_resort ELSE ports[sw][2]
  IN push_flow(sw, name, ports[sw][1], out_p, DefaultPriority)

\* One iteration of the forward loop.
PushForward ==
  /\ pc = "fwd"
  /\ i < Len(sw_path.l)
  /\ pushed' = Append(pushed, HopFlow(sw_path.l, hop_ports, dst_port,
                                      FlowName("fwd", args.src, args.dst, i)))
  /\ \E outcome \in PostOutcomes :
       IF outcome = "neterror"
       THEN pc' = "crashed" /\ UNCHANGED <<i, r>>
       ELSE pc' = "fwd" /\ i' = i + 1 /\ r' = outcome
  /\ UNCHANGED <<args, search, devs, devices, ends, raw, links, graph, sw_path, hop_ports,
                 rev_path, rev_hop_ports>>

\* The reverse batch taken from the forward hop ports, not resolved again.
EndForward_ReuseForwardPorts ==
  /\ pc = "fwd"
  /\ i = Len(sw_path.l)
  /\ IF args.bidirectional
     THEN LET rp == [k \in 1..Len(sw_path.l) |-> sw_path.l[Len(sw_path.l) + 1 - k]]
          IN /\ rev_path' = rp
             /\ rev_hop_ports' = WithHostPorts(hop_ports, rp, dst_port, src_port)
             /\ i' = 0
             /\ pc' = "rev"
     ELSE pc' = "done" /\ UNCHANGED <<rev_path, rev_hop_ports, i>>
  /\ UNCHANGED <<args, search, devs, devices, ends, raw, links, graph, sw_path, hop_ports,
                 pushed, r>>

\* The forward loop is over: the reverse batch is prepared, or the run is done.
EndForward ==
  /\ pc = "fwd"
  /\ i = Len(sw_path.l)
  /\ IF args.bidirectional
     THEN LET rp == [k \in 1..Len(sw_path.l) |-> sw_path.l[Len(sw_path.l) + 1 - k]]
          IN /\ rev_path' = rp
             /\ rev_hop_ports' = WithHostPorts(path_ports_for_switches(graph, rp), rp,
                                               dst_port, src_port)
             /\ i' = 0
             /\ pc' = "rev"
     ELSE pc' = "done" /\ UNCHANGED <<rev_path, rev_hop_ports, i>>
  /\ UNCHANGED <<args, search, devs, devices, ends, raw, links, graph, sw_path, hop_ports,
                 pushed, r>>

\* One iteration of the reverse loop.
PushReverse ==
  /\ pc = "rev"
  /\ i < Len(rev_path)
  /\ pushed' = Append(pushed, HopFlow(rev_path, rev_hop_ports, src_port,
                                      FlowName("rev", args.dst, args.src, i)))
  /\ \E outcome \in PostOutcomes :
       IF outcome = "neterror"
       THEN pc' = "crashed" /\ UNCHANGED <<i, r>>
       ELSE pc' = "rev" /\ i' = i + 1 /\ r' = outcome
  /\ UNCHANGED <<args, search, devs, devices, ends, raw, links, graph, sw_path, hop_ports,
                 rev_path, rev_hop_ports>>

EndReverse ==
  /\ pc = "rev"
  /\ i = Len(rev_path)
  /\ pc' = "done"
  /\ UNCHANGED <<args, search, devs, devices, ends, raw, links, graph, sw_path, hop_ports,
                 rev_path, rev_hop_ports, i, pushed, r>>

Next ==
  \/ GetDevices
  \/ ResolveAttachments
  \/ GetTopology
  \/ PlanPath
  \/ PushForward
  \/ EndForward
  \/ PushReverse
  \/ EndReverse

Spec == Init /\ [][Next]_vars

\* How the process ends: 0 after the last loop, non-zero on SystemExit(message)
\* and on an exception nothing catches.
ExitCode ==
  CASE pc = "done" -> 0
    [] pc \in {"exit_attachment", "exit_empty", "exit_nopath", "crashed"} -> 1
    [] OTHER -> -1
(***************************************************************************)
(* The topology functions on their own: a batch of raw link records is     *)
(* normalized, the graph is built, and a path is searched and resolved     *)
(* for a pair of switches.                                                 *)
(***************************************************************************)
\* A parallel S1-S2 link whose ports arrive as text.
L12s == Link(S1, JStr("3"), S2, JStr("4"))
\* A link whose source port does not parse and whose destination port is absent.
L31x == JDict(("src-switch" :> JStr(S3)) @@ ("src-port" :> JStr("eth0")) @@
              ("dst-switch" :> JStr(S1)))
\* A link from a switch to itself.
L22 == Link(S2, JInt(4), S2, JInt(5))
L34 == Link(S3, JInt(4), S4, JInt(1))
\* Switch ids in nested objects, ports under other aliases, port 0.
L32n == JDict(("src" :> JDict("dpid" :> JStr(S3))) @@ ("port1" :> JInt(0)) @@
              ("dst" :> JDict("switchDPID" :> JStr(S2))) @@ ("port2" :> JInt(1)))
\* Not an object.
LText == JStr("s1-s2")
\* Field names the normalizer does not know.
LUnknown == JDict(("from" :> JStr(S1)) @@ ("to" :> JStr(S2)))
\* A nested source object without an id.
LNoId == JDict(("src" :> JDict("name" :> JStr("s1"))) @@ ("dst-switch" :> JStr(S2)))

TopoRecords == {L12, L23, L12s, L31x, L22, L34, L32n, LText, LNoDst, LUnknown, LNoId}

\* The longest batch of raw records the topology functions are applied to.
MaxBatch == 3

TopoPayloads ==
  {JList(b) : b \in Batches(TopoRecords, MaxBatch)} \cup
  { JDict("links" :> JList(<<LText, L23, L12>>)), JDict("error" :> JStr("down")) }

SwitchIds == {S1, S2, S3, S4}

InitTopo ==
  /\ pc = "t_raw"
  /\ args = [src |-> "h1", dst |-> "h3", bidirectional |-> FALSE]
  /\ devices = Unassigned /\ src_dev = Unassigned /\ dst_dev = Unassigned
  /\ src_ap = Unassigned /\ dst_ap = Unassigned
  /\ src_switch = "" /\ src_port = Unassigned /\ dst_switch = "" /\ dst_port = Unassigned
  /\ raw \in TopoPayloads
  /\ links = <<>> /\ graph = <<>> /\ sw_path = Unassigned /\ hop_ports = <<>>
  /\ rev_path = <<>> /\ rev_hop_ports = <<>> /\ i = 0 /\ pushed = <<>> /\ r = "none"
  /\ q = <<>> /\ visited = {}

Normalize ==
  /\ pc = "t_raw"
  /\ links' = get_topology_links(raw)
  /\ pc' = "t_links"
  /\ UNCHANGED <<args, search, devs, devices, ends, raw, graph, sw_path, hop_ports, rev_path,
                 rev_hop_ports, i, pushed, r>>

BuildGraph ==
  /\ pc = "t_links"
  /\ graph' = build_switch_graph(links)
  /\ pc' = "t_graph"
  /\ UNCHANGED <<args, search, devs, devices, ends, raw, links, sw_path, hop_ports, rev_path,
                 rev_hop_ports, i, pushed, r>>

FindPath ==
  /\ pc = "t_graph"
  /\ \E s \in SwitchIds, d \in SwitchIds :
       /\ src_switch' = s
       /\ dst_switch' = d
       /\ sw_path' = shortest_switch_path(graph, s, d)
  /\ pc' = "t_path"
  /\ UNCHANGED <<args, search, devs, devices, src_ap, dst_ap, src_port, dst_port, raw, links, graph,
                 hop_ports, rev_path, rev_hop_ports, i, pushed, r>>

ResolvePorts ==
  /\ pc = "t_path"
  /\ sw_path.t = "list"
  /\ hop_ports' = path_ports_for_switches(graph, sw_path.l)
  /\ pc' = "t_ports"
  /\ UNCHANGED <<args, search, devs, devices, ends, raw, links, graph, sw_path, rev_path,
                 rev_hop_ports, i, pushed, r>>

NextTopo ==
  \/ Normalize
  \/ BuildGraph
  \/ FindPath
  \/ ResolvePorts

SpecTopo == InitTopo /\ [][NextTopo]_vars
(***************************************************************************)
(* The path search step by step: the call of shortest_switch_path, then    *)
(* one iteration of its while loop at a time, on graphs with cycles,       *)
(* parallel links and links from a switch to itself.  The search is a      *)
(* sequential loop: a step that can be taken is taken.                     *)
(***************************************************************************)
SearchRecords == {L12, L12s, L23, L31, L22, L34}

\* The longest batch of links the searched graphs are built from.
MaxSearchLinks == 3

InitSearch ==
  /\ pc = "s_call"
  /\ args = [src |-> "h1", dst |-> "h3", bidirectional |-> FALSE]
  /\ devices = Unassigned /\ src_dev = Unassigned /\ dst_dev = Unassigned
  /\ src_ap = Unassigned /\ dst_ap = Unassigned
  /\ src_port = Unassigned /\ dst_port = Unassigned
  /\ src_switch \in SwitchIds /\ dst_switch \in SwitchIds
  /\ raw = Unassigned
  /\ \E b \in Batches(SearchRecords, MaxSearchLinks) :
        /\ links = NormalizeAll(b)
        /\ graph = build_switch_graph(NormalizeAll(b))
  /\ q = <<>> /\ visited = {}
  /\ sw_path = Unassigned /\ hop_ports = <<>> /\ rev_path = <<>> /\ rev_hop_ports = <<>>
  /\ i = 0 /\ pushed = <<>> /\ r = "none"

\* The test for equal endpoints, else q = deque([[src_sw]]), visited = {src_sw}.
SearchCall ==
  /\ pc = "s_call"
  /\ IF src_switch = dst_switch
     THEN sw_path' = JList(<<src_switch>>) /\ pc' = "s_done" /\ UNCHANGED search
     ELSE /\ q' = <<<<src_switch>>>>
          /\ visited' = {src_switch}
          /\ pc' = "s_loop"
          /\ UNCHANGED sw_path
  /\ UNCHANGED <<args, devices, devs, ends, raw, links, graph, hop_ports, rev_path,
                 rev_hop_ports, i, pushed, r>>

\* One iteration of "while q": pop a path and expand its last node, or
\* return None when the queue is empty.
SearchStep ==
  /\ pc = "s_loop"
  /\ IF q = <<>>
     THEN sw_path' = JNone /\ pc' = "s_done" /\ UNCHANGED search
     ELSE LET path == Head(q)
              res == Expand(GraphGet(graph, path[Len(path)]), path, Tail(q), visited,
                            dst_switch)
          IN /\ q' = res.q
             /\ visited' = res.visited
             /\ IF res.found
                THEN sw_path' = JList(res.newpath) /\ pc' = "s_done"
                ELSE pc' = "s_loop" /\ UNCHANGED sw_path
  /\ UNCHANGED <<args, devices, devs, ends, raw, links, graph, hop_ports, rev_path,
                 rev_hop_ports, i, pushed, r>>

NextSearch ==
  \/ SearchCall
  \/ SearchStep

SpecSearch == InitSearch /\ [][NextSearch]_vars /\ WF_vars(NextSearch)
(***************************************************************************)
(* The device locator on its own: a host name is looked up in a directory  *)
(* of device entries, and the heuristic is applied to it.                  *)
(***************************************************************************)
\* A device entry with addresses only.
Addressed(ip, mac) == JDict(("ipv4" :> ip) @@ ("mac" :> mac))

\* Host 1, addresses in lists.
D1 == Addressed(JList(<<JStr("10.0.0.1")>>), JList(<<JStr("00:00:00:00:00:01")>>))
\* Host 11, addresses as single values.
D11 == Addressed(JStr("10.0.0.11"), JStr("00:00:00:00:00:0b"))
\* Host 2, known by its hardware address only.
D2 == JDict("mac" :> JList(<<JStr("00:00:00:00:00:02")>>))
\* A second entry for host 1: two addresses, the second with blanks around it.
D1b == JDict("ipv4Addresses" :> JList(<<JStr("192.168.0.7"), JStr(" 10.0.1.1 ")>>))
\* An entry whose IP address is not text; host 3 by its hardware address.
D3 == Addressed(JList(<<JInt(3)>>), JList(<<JStr("00:00:00:00:00:03")>>))
\* An entry whose hardware address is not text.
DNum == JDict("mac" :> JList(<<JInt(5)>>))

DeviceRecords == {D1, D11, D2, D1b, D3, DNum}

\* The longest directory the locator is applied to.
MaxDevices == 2

LocatorHosts == {"h1", "h2", "h3", "h11", "hh2", "1", "hx", "host1"}

InitLocator ==
  /\ pc = "l_host"
  /\ \E h \in LocatorHosts : args = [src |-> h, dst |-> h, bidirectional |-> FALSE]
  /\ \E b \in Batches(DeviceRecords, MaxDevices) : devices = get_devices(JList(b))
  /\ src_dev = Unassigned /\ dst_dev = Unassigned
  /\ src_ap = Unassigned /\ dst_ap = Unassigned
  /\ src_switch = "" /\ src_port = Unassigned /\ dst_switch = "" /\ dst_port = Unassigned
  /\ raw = Unassigned /\ links = <<>> /\ graph = <<>> /\ sw_path = Unassigned
  /\ hop_ports = <<>> /\ rev_path = <<>> /\ rev_hop_ports = <<>> /\ i = 0
  /\ pushed = <<>> /\ r = "none"
  /\ q = <<>> /\ visited = {}

\* src_dev = find_device_by_name(devices, args.src)
FindDevice ==
  /\ pc = "l_host"
  /\ IF find_device_by_name(devices.l, args.src) = Raised
     THEN pc' = "l_raised" /\ UNCHANGED src_dev
     ELSE pc' = "l_found" /\ src_dev' = find_device_by_name(devices.l, args.src)
  /\ UNCHANGED <<args, search, devices, dst_dev, ends, raw, links, graph, sw_path, hop_ports,
                 rev_path, rev_hop_ports, i, pushed, r>>

\* src_ap = heuristic(args.src)
Infer ==
  /\ pc = "l_found"
  /\ src_ap' = heuristic(args.src)
  /\ pc' = "l_inferred"
  /\ UNCHANGED <<args, search, devices, devs, dst_ap, src_switch, src_port, dst_switch, dst_port,
                 raw, links, graph, sw_path, hop_ports, rev_path, rev_hop_ports,
                 i, pushed, r>>

NextLocator ==
  \/ FindDevice
  \/ Infer

SpecLocator == InitLocator /\ [][NextLocator]_vars
(***************************************************************************)
(* Graph notions the properties are stated with.  They are defined on the  *)
(* adjacency structure alone, not by the search.                           *)
(***************************************************************************)
Nbrs(g, a) == {GraphGet(g, a)[k][1] : k \in 1..Len(GraphGet(g, a))}

\* The switches at most n hops away from s.
RECURSIVE Within(_, _, _)
Within(g, s, n) ==
  IF n = 0 THEN {s}
  ELSE LET w == Within(g, s, n - 1) IN w \cup UNION {Nbrs(g, a) : a \in w}

Connected(g, s, d) == d \in Within(g, s, Cardinality(DOMAIN g))

\* The least number of hops of a path from s to d, for connected s and d.
MinHops(g, s, d) ==
  CHOOSE n \in 0..Cardinality(DOMAIN g) :
    d \in Within(g, s, n) /\ \A m \in 0..(n - 1) : d \notin Within(g, s, m)

\* p is a path of the graph from s to d.
IsPath(g, p, s, d) ==
  /\ Len(p) >= 1
  /\ p[1] = s
  /\ p[Len(p)] = d
  /\ \A k \in 1..(Len(p) - 1) : p[k + 1] \in Nbrs(g, p[k])

(***************************************************************************)
(* C1: a run that cannot resolve an attachment point, gets no usable link  *)
(* or finds no switch path ends with a non-zero exit, and has issued no    *)
(* flow installation request.                                              *)
(***************************************************************************)
AbortStates == {"exit_attachment", "exit_empty", "exit_nopath"}

\* Either host is left without an attachment point, by the directory and by
\* the heuristic.
AttachmentUnresolved == src_ap.t = "none" \/ dst_ap.t = "none"

\* The topology was read and normalized to nothing.
NoUsableLinks == pc \notin {"t_raw", "t_links"} /\ raw # Unassigned /\ Len(links) = 0

\* The graph was built, and it does not connect the two attachment switches.
NoSwitchPath ==
  /\ pc \notin {"t_path", "t_ports"}
  /\ sw_path # Unassigned
  /\ src_switch # dst_switch
  /\ ~Connected(graph, src_switch, dst_switch)

\* C1: each of the three failures ends the run with a non-zero exit and no
\* request issued.  An empty topology ends in SystemExit, or in the exception
\* of the request that fetches the raw answer for the diagnostic.
C1_AbortBeforeInstall ==
  /\ AttachmentUnresolved => pc = "exit_attachment"
  /\ NoUsableLinks => pc \in {"exit_empty", "crashed"}
  /\ NoSwitchPath => pc = "exit_nopath"
  /\ (pc \in AbortStates \/ NoUsableLinks) => ExitCode # 0 /\ pushed = <<>>

\* The run gave up for want of a path, with links and both hosts resolved.
C1_Witness == pc = "exit_nopath" /\ NoSwitchPath /\ Len(links) >= 2

(***************************************************************************)
(* C2: for distinct switches the search returns a path of the graph from   *)
(* the source to the destination with the least number of hops when the    *)
(* two are connected, and None (not an empty or partial path) when they    *)
(* are not, also when either switch is not in the graph.                   *)
(***************************************************************************)
C2_ShortestOrNotFound ==
  (pc \in {"t_path", "t_ports"} /\ src_switch # dst_switch) =>
     IF Connected(graph, src_switch, dst_switch)
     THEN /\ sw_path.t = "list"
          /\ IsPath(graph, sw_path.l, src_switch, dst_switch)
          /\ Len(sw_path.l) - 1 = MinHops(graph, src_switch, dst_switch)
     ELSE sw_path = JNone

\* A shortest path of two hops in a graph that also holds a detour.
C2_Witness ==
  /\ pc = "t_path"
  /\ sw_path = JList(<<S1, S2, S3>>)
  /\ Cardinality(DOMAIN graph) = 4
(***************************************************************************)
(* C3: a failed installation request, rejected by the controller or ended  *)
(* by a network error, does not keep the remaining requests of the batch   *)
(* or of the reverse batch from being issued, and the run ends with exit   *)
(* code 0 after all batches.                                               *)
(***************************************************************************)
\* The number of requests the run owes once the path is known.
RequestsDue == Len(sw_path.l) * (IF args.bidirectional THEN 2 ELSE 1)

\* C3: once a request was issued, the run goes on, or has ended with exit
\* code 0 and every due request issued.
C3_FailedPushDoesNotAbort ==
  (pushed # <<>> /\ pc \notin {"fwd", "rev"}) =>
     ExitCode = 0 /\ Len(pushed) = RequestsDue

\* The part of C3 the code keeps: a response, whatever its status, is only
\* printed, and the loop goes on.
C3_RejectionDoesNotAbort ==
  (pushed # <<>> /\ r = "rejected" /\ pc # "crashed") =>
     pc \in {"fwd", "rev", "done"} /\ (pc = "done" => Len(pushed) = RequestsDue)

(***************************************************************************)
(* C4: the adjacency structure is symmetric: the entry (B, p, q) occurs in *)
(* graph[A] as many times as (A, q, p) occurs in graph[B], and the entries *)
(* between two switches appear in the same link order on both sides.       *)
(***************************************************************************)
Count(seq, x) == Cardinality({k \in 1..Len(seq) : seq[k] = x})

\* The entries of a toward b, in order.
Toward(g, a, b) == SelectSeq(GraphGet(g, a), LAMBDA e : e[1] = b)

CountsSymmetric(g) ==
  \A a \in DOMAIN g : \A k \in 1..Len(g[a]) :
     LET e == g[a][k]
     IN Count(g[a], e) = Count(GraphGet(g, e[1]), <<a, e[3], e[2]>>)

\* The k-th entry of b toward a is the k-th entry of a toward b, mirrored.
OrderMirrored(g, a, b) ==
  /\ Len(Toward(g, a, b)) = Len(Toward(g, b, a))
  /\ \A k \in 1..Len(Toward(g, a, b)) :
        Toward(g, b, a)[k] = <<a, Toward(g, a, b)[k][3], Toward(g, a, b)[k][2]>>

\* C4 as stated: the order is mirrored for every A and B, A = B included.
C4_SymmetricSameOrder ==
  /\ CountsSymmetric(graph)
  /\ \A a \in DOMAIN graph, b \in DOMAIN graph : OrderMirrored(graph, a, b)

\* C4 as amended: the counts are symmetric for all A and B, and the order is
\* mirrored for distinct switches A and B.
C4_Symmetric ==
  /\ CountsSymmetric(graph)
  /\ \A a \in DOMAIN graph, b \in DOMAIN graph : a # b => OrderMirrored(graph, a, b)

\* A graph with two parallel S1-S2 links and a link from S2 to itself.
C4_Witness ==
  /\ pc = "t_graph"
  /\ Len(Toward(graph, S1, S2)) = 2
  /\ Len(Toward(graph, S2, S2)) = 2

(***************************************************************************)
(* C5: on every path the search returns, the egress port of a hop and the  *)
(* ingress port of the next hop are the two ends of one adjacency entry:   *)
(* the predecessor's egress is the local port of its first entry toward    *)
(* the hop, and the hop's ingress is that entry's neighbour-side port.     *)
(***************************************************************************)
C5_PortsOfOneLink ==
  pc = "t_ports" =>
    \A k \in 2..Len(sw_path.l) :
       LET p == sw_path.l[k - 1]
           h == sw_path.l[k]
           e == Toward(graph, p, h)[1]
       IN /\ hop_ports[p][2] = e[2]
          /\ hop_ports[h][1] = e[3]

\* A three-switch path over a pair joined by several links, with a hop whose
\* ingress port is unknown.
C5_Witness ==
  /\ pc = "t_ports"
  /\ Len(sw_path.l) = 3
  /\ \E k \in 2..3 : Len(Toward(graph, sw_path.l[k - 1], sw_path.l[k])) >= 2
  /\ \E k \in 2..3 : hop_ports[sw_path.l[k]][1] = JNone
(***************************************************************************)
(* C6: the reverse batch is resolved on the reversed path with the host    *)
(* ports swapped: an interior switch gets the forward pair with ingress    *)
(* and egress exchanged, the reverse first hop matches the destination     *)
(* host's port and the reverse last hop outputs to the source host's port. *)
(***************************************************************************)
C6_ReverseSwapsRoles ==
  rev_path # <<>> =>
    LET n == Len(sw_path.l)
        first == sw_path.l[1]
        last == sw_path.l[n]
    IN /\ rev_path = [k \in 1..n |-> sw_path.l[n + 1 - k]]
       /\ \A k \in 2..(n - 1) :
             rev_hop_ports[sw_path.l[k]] =
               <<hop_ports[sw_path.l[k]][2], hop_ports[sw_path.l[k]][1]>>
       /\ rev_hop_ports[last][1] = dst_port
       /\ rev_hop_ports[first][2] = src_port
       /\ n >= 2 => /\ rev_hop_ports[last][2] = hop_ports[last][1]
                    /\ rev_hop_ports[first][1] = hop_ports[first][2]
       /\ Len(pushed) > n => /\ pushed[n + 1]["switch"] = last
                             /\ pushed[n + 1]["in_port"] = DecStr(dst_port.i)
       /\ Len(pushed) = 2 * n => /\ pushed[2 * n]["switch"] = first
                                 /\ pushed[2 * n]["actions"] = "output=" \o DecStr(src_port.i)

\* A finished bidirectional run over three switches whose middle switch has
\* two different known ports.
C6_Witness ==
  /\ pc = "done"
  /\ Len(rev_path) = 3
  /\ hop_ports[sw_path.l[2]][1].t = "int"
  /\ hop_ports[sw_path.l[2]][2].t = "int"
  /\ hop_ports[sw_path.l[2]][1] # hop_ports[sw_path.l[2]][2]

(***************************************************************************)
(* C7: on a forward path of two or more switches the first hop's ingress   *)
(* is the source host's port, the last hop's egress is the destination     *)
(* host's port, and every other port is the one the graph records toward   *)
(* the neighbouring hop; for the line S1-S2-S3 with h1 on S1 port 1 and h3 *)
(* on S3 port 1 the path is S1, S2, S3 with ports (1,2), (2,3), (2,1).     *)
(***************************************************************************)
\* The local port of the first entry of sw toward nb, None without an entry.
PortToward(g, sw, nb) ==
  IF Toward(g, sw, nb) = <<>> THEN JNone ELSE Toward(g, sw, nb)[1][2]

Planned == pc \in {"fwd", "rev", "done", "crashed"} /\ hop_ports # <<>>

LineScenario ==
  /\ raw \in {JList(<<L12, L23>>), JList(<<L23, L12>>)}
  /\ src_ap = AP(S1, 1)
  /\ dst_ap = AP(S3, 1)
  /\ sw_path # Unassigned

\* C7: host ports at the two ends, graph ports elsewhere, and the line scenario.
C7_HostPortsAtTheEnds ==
  /\ (Planned /\ Len(sw_path.l) >= 2) =>
        \A k \in 1..Len(sw_path.l) :
           hop_ports[sw_path.l[k]] =
             << IF k = 1 THEN src_port
                ELSE PortToward(graph, sw_path.l[k], sw_path.l[k - 1]),
                IF k = Len(sw_path.l) THEN dst_port
                ELSE PortToward(graph, sw_path.l[k], sw_path.l[k + 1]) >>
  /\ LineScenario =>
        /\ sw_path = JList(<<S1, S2, S3>>)
        /\ hop_ports = (S1 :> <<JInt(1), JInt(2)>>) @@ (S2 :> <<JInt(2), JInt(3)>>) @@
                       (S3 :> <<JInt(2), JInt(1)>>)

C7_Witness == pc = "done" /\ LineScenario /\ args.src = "h1" /\ args.dst = "h3"

(***************************************************************************)
(* C8: when both hosts resolve to the same switch S, a forward-only run    *)
(* computes the path [S] and issues exactly one request, on S, matching    *)
(* the source host's port and outputting to the destination host's port.   *)
(***************************************************************************)
RunOver == pc \in {"done", "crashed"} \cup AbortStates

\* Both hosts resolved to one switch, no reverse batch asked for, and the
\* topology query answered.
SameSwitchForwardOnly ==
  /\ src_switch # ""
  /\ src_switch = dst_switch
  /\ ~args.bidirectional
  /\ raw # Unassigned

OneRuleOnSharedSwitch ==
  /\ sw_path = JList(<<src_switch>>)
  /\ Len(pushed) = 1
  /\ pushed[1]["switch"] = src_switch
  /\ "in_port" \in DOMAIN pushed[1]
  /\ pushed[1]["in_port"] = DecStr(src_port.i)
  /\ pushed[1]["actions"] = "output=" \o DecStr(dst_port.i)

\* C8 as stated: for every topology answer.
C8_SameSwitchOneRule == (RunOver /\ SameSwitchForwardOnly) => OneRuleOnSharedSwitch

\* C8 as amended: when the topology answer holds at least one usable link.
C8_SameSwitchOneRuleGivenLinks ==
  (RunOver /\ SameSwitchForwardOnly /\ Len(links) > 0) => OneRuleOnSharedSwitch

\* h1 and h2 on one switch, by the directory, and the run finished.
C8_Witness ==
  /\ pc = "done"
  /\ SameSwitchForwardOnly
  /\ args.src # args.dst
  /\ src_port # dst_port
  /\ Len(pushed) = 1

(***************************************************************************)
(* C9: for a path of n switches the forward batch issues exactly n         *)
(* requests, the k-th to the k-th switch and named fwd ... k, all with the *)
(* one default priority; a bidirectional run issues n more, named rev, in  *)
(* reversed path order after the forward batch; no name is issued twice.   *)
(***************************************************************************)
RequestSwitch(k) ==
  IF k <= Len(sw_path.l) THEN sw_path.l[k] ELSE sw_path.l[2 * Len(sw_path.l) + 1 - k]

RequestName(k) ==
  IF k <= Len(sw_path.l)
  THEN "fwd_" \o args.src \o "_to_" \o args.dst \o "_" \o DecStr(k)
  ELSE "rev_" \o args.dst \o "_to_" \o args.src \o "_" \o DecStr(k - Len(sw_path.l))

\* What has been issued so far is the beginning of the expected sequence.
RequestsInOrder ==
  /\ Len(pushed) <= RequestsDue
  /\ \A k \in 1..Len(pushed) :
        /\ pushed[k]["switch"] = RequestSwitch(k)
        /\ pushed[k]["name"] = RequestName(k)
        /\ pushed[k]["priority"] = "32768"
  /\ \A j \in 1..Len(pushed), k \in 1..Len(pushed) :
        pushed[j]["name"] = pushed[k]["name"] => j = k

\* C9: the requests come in the expected order, and a run that is over after
\* planning has issued all of them.
C9_OneRequestPerHop ==
  Planned => /\ RequestsInOrder
             /\ pc \in {"done", "crashed"} => Len(pushed) = RequestsDue

\* The part of C9 the code keeps: the order, the names and the priority of
\* what is issued, and the full count in a run that reaches its end.
C9_OneRequestPerHopWhenDone ==
  Planned => /\ RequestsInOrder
             /\ pc = "done" => Len(pushed) = RequestsDue

(***************************************************************************)
(* C10: records that are not objects, that have no resolvable source or    *)
(* destination switch id, or that use only unknown field names are         *)
(* dropped, and the links and the graph are those of the well-formed       *)
(* records of the batch alone, in their order.                             *)
(***************************************************************************)
\* The record holds a switch id under one of the aliases: the first alias
\* with a value holds an id, or an object that holds one.
HasId(e, keys) ==
  \E j \in 1..Len(keys) :
     LET v == Get(e, keys[j])
     IN /\ Truthy(v)
        /\ \A m \in 1..(j - 1) : ~Truthy(Get(e, keys[m]))
        /\ v.t = "dict" => \E n \in 1..Len(NestedKeys) : Truthy(Get(v, NestedKeys[n]))

WellFormed(e) == e.t = "dict" /\ HasId(e, SrcKeys) /\ HasId(e, DstKeys)

\* The records of the payload.
RawBatch ==
  IF raw.t = "list" THEN raw.l
  ELSE IF raw.t = "dict" /\ "links" \in DOMAIN raw.d /\ raw.d["links"].t = "list"
       THEN raw.d["links"].l
  ELSE <<>>

\* C10: one link per well-formed record, and the links and the graph of the
\* batch are those of its well-formed records alone.
C10_MalformedDropped ==
  pc \in {"t_links", "t_graph", "t_path", "t_ports"} =>
    LET good == SelectSeq(RawBatch, WellFormed)
    IN /\ Len(links) = Len(good)
       /\ links = NormalizeAll(good)
       /\ pc # "t_links" => graph = build_switch_graph(NormalizeAll(good))

\* A batch with a malformed record between two well-formed ones.
C10_Witness ==
  /\ pc = "t_graph"
  /\ Len(RawBatch) = 3
  /\ WellFormed(RawBatch[1]) /\ ~WellFormed(RawBatch[2]) /\ WellFormed(RawBatch[3])
  /\ Len(links) = 2

(***************************************************************************)
(* C11: every request that is issued carries a known egress port: a hop    *)
(* whose resolved egress is unknown outputs to the attachment port of the  *)
(* destination host of its direction (the destination host in the forward  *)
(* batch, the source host in the reverse batch), and a hop whose resolved  *)
(* egress is known outputs to that port.                                   *)
(***************************************************************************)
\* The egress port port resolution left for the k-th request of the run.
ResolvedEgress(k) ==
  IF k <= Len(sw_path.l) THEN hop_ports[RequestSwitch(k)][2]
  ELSE rev_hop_ports[RequestSwitch(k)][2]

\* The attachment port of the host the k-th request's direction leads to.
DirectionHostPort(k) == IF k <= Len(sw_path.l) THEN dst_port ELSE src_port

\* C11: no request outputs to None; unknown egress becomes the direction's
\* destination host port, known egress is left as resolved.
C11_EgressNeverNull ==
  Planned =>
    \A k \in 1..Len(pushed) :
       /\ pushed[k]["actions"] # "output=None"
       /\ DirectionHostPort(k).t = "int"
       /\ pushed[k]["actions"] =
            "output=" \o DecStr((IF ResolvedEgress(k) = JNone THEN DirectionHostPort(k)
                                 ELSE ResolvedEgress(k)).i)

\* A finished bidirectional run over three switches, the hosts on different
\* ports, with an unknown egress in each direction and a known one beside it.
C11_Witness ==
  /\ pc = "done"
  /\ Len(pushed) = 6
  /\ src_port # dst_port
  /\ \E k \in 1..3 : ResolvedEgress(k) = JNone
  /\ \E k \in 4..6 : ResolvedEgress(k) = JNone
  /\ \E k \in 1..2 : ResolvedEgress(k).t = "int"

(***************************************************************************)
(* C12: for each host on its own, the run uses the attachment point of the *)
(* device directory when the directory yields one, and otherwise the       *)
(* fallback: ordinal n goes to the switch id whose last field is n, port   *)
(* 1.  The fallback never replaces a directory attachment, and a host left *)
(* unresolved ends the run with attachment-unresolved, before the topology *)
(* is queried or a path computed.                                          *)
(***************************************************************************)
\* What the directory yields for a host whose entry the lookup returned: an
\* attachment point, None, or Raised when reading the entry ends in an exception.
PrimaryOf(dev) == IF dev = Unassigned THEN Raised ELSE pick_attachment(dev)

\* The digits a host name ends in.
RECURSIVE TrailingDigits(_)
TrailingDigits(s) ==
  IF Len(s) > 0 /\ IsDigit(SubSeq(s, Len(s), Len(s)))
  THEN TrailingDigits(SubSeq(s, 1, Len(s) - 1)) \o SubSeq(s, Len(s), Len(s))
  ELSE ""

\* ap is the fallback attachment of the host: port 1 on the switch whose id is
\* seven 00 fields and a last field that reads as the host's ordinal.
IsFallbackOf(ap, hostname) ==
  /\ ap.t = "tuple"
  /\ ap.port = 1
  /\ Len(ap.sw) = 23
  /\ SubSeq(ap.sw, 1, 21) = "00:00:00:00:00:00:00:"
  /\ AllDigits(SubSeq(ap.sw, 22, 23))
  /\ TrailingDigits(hostname) # ""
  /\ ParseDec(SubSeq(ap.sw, 22, 23)) = ParseDec(TrailingDigits(hostname))

\* The attachment the run holds for a host is the directory's, else the fallback's,
\* else none for a host name without an ordinal.
UsesPrimaryElseFallback(ap, dev, hostname) ==
  ap # Unassigned =>
    IF PrimaryOf(dev).t = "tuple" THEN ap = PrimaryOf(dev)
    ELSE /\ PrimaryOf(dev) = JNone
         /\ IF TrailingDigits(hostname) = "" THEN ap = JNone
            ELSE IsFallbackOf(ap, hostname)

\* Nothing after the attachment step has happened.
BeforeTopology ==
  raw = Unassigned /\ links = <<>> /\ graph = <<>> /\ sw_path = Unassigned /\ pushed = <<>>

C13_SameSwitchPath ==
  (pc \in {"t_path", "t_ports"} /\ src_switch = dst_switch) =>
     /\ sw_path = JList(<<src_switch>>)
     /\ pc = "t_ports" => DOMAIN hop_ports = {src_switch}

\* The search from S4 to S4 in a graph of three other switches.
C13_Witness ==
  /\ pc = "t_path"
  /\ src_switch = S4 /\ dst_switch = S4
  /\ S4 \notin DOMAIN graph
  /\ Cardinality(DOMAIN graph) = 3

(***************************************************************************)
(* C14: an unknown port stays unknown and is never turned into 0: a link   *)
(* record whose port is absent or does not parse gives an unknown port in  *)
(* the normalized link, in both adjacency entries of the link and in the   *)
(* port pair of every hop resolved over it, while a port reported as 0     *)
(* stays the known value 0 and is never treated as unknown.                *)
(***************************************************************************)
\* The port a record reports under a list of aliases: the first value that
\* reads as an integer, None when no alias holds one.
ReportedPort(e, keys) ==
  IF \A j \in 1..Len(keys) : ~IntOk(Get(e, keys[j])) THEN JNone
  ELSE LET j == CHOOSE n \in 1..Len(keys) :
                  IntOk(Get(e, keys[n])) /\ \A m \in 1..(n - 1) : ~IntOk(Get(e, keys[m]))
       IN JInt(IntOf(Get(e, keys[j])))

\* The normalized links carry the ports their records report, None included.
LinkPortsAsReported ==
  (raw # Unassigned /\ pc # "t_raw") =>
    LET good == SelectSeq(RawBatch, WellFormed)
    IN /\ Len(links) = Len(good)
       /\ \A k \in 1..Len(links) :
             /\ links[k].src_port = ReportedPort(good[k], SrcPortKeys)
             /\ links[k].dst_port = ReportedPort(good[k], DstPortKeys)

\* Each link has its two adjacency entries, with the link's ports as they are.
EntriesCarryLinkPorts ==
  graph # <<>> =>
    \A k \in 1..Len(links) :
       /\ Count(GraphGet(graph, links[k].src),
                <<links[k].dst, links[k].src_port, links[k].dst_port>>) >= 1
       /\ Count(GraphGet(graph, links[k].dst),
                <<links[k].src, links[k].dst_port, links[k].src_port>>) >= 1

\* Between two hops of the path, the ports are those of the first entry of
\* the one toward the other, an unknown port as None and a port 0 as 0.
HopsCarryEntryPorts ==
  hop_ports # <<>> =>
    \A k \in 2..Len(sw_path.l) :
       LET e == Toward(graph, sw_path.l[k - 1], sw_path.l[k])[1]
       IN /\ hop_ports[sw_path.l[k - 1]][2] = e[2]
          /\ hop_ports[sw_path.l[k]][1] = e[3]

\* The part of C14 on links, which the code keeps: from the record to the
\* link, to the adjacency entries, to the hop pairs.
C14_LinkPortsPropagate ==
  LinkPortsAsReported /\ EntriesCarryLinkPorts /\ HopsCarryEntryPorts

\* A path over a link whose ports are unknown and over a link with a port 0.
C14_LinkWitness ==
  /\ pc = "t_ports"
  /\ Len(sw_path.l) = 3
  /\ \E k \in 1..3 : hop_ports[sw_path.l[k]] = <<JNone, JInt(0)>>

AttachmentPortKeys == <<"port", "portNumber", "port_no">>

\* The first attachment point the directory holds for the host, None without one.
ReportedPoint(hostname) ==
  LET dev == find_device_by_name(devices.l, hostname)
      aps == IF dev.t = "dict"
             THEN FirstOf(dev, <<"attachmentPoint", "attachmentPoints",
                                 "attachment_point", "attachment">>)
             ELSE JNone
  IN IF aps.t = "list" /\ Len(aps.l) > 0 /\ aps.l[1].t = "dict" THEN aps.l[1] ELSE JNone

\* A host whose attachment point reports a port is attached on that port.
AttachmentPortKept(ap, hostname) ==
  (ap # Unassigned /\ ReportedPoint(hostname) # JNone
     /\ ReportedPort(ReportedPoint(hostname), AttachmentPortKeys) # JNone) =>
    /\ ap.t = "tuple"
    /\ JInt(ap.port) = ReportedPort(ReportedPoint(hostname), AttachmentPortKeys)

\* C14: unknown link ports stay unknown down to the hop pairs, and a port
\* reported as 0, on a link or on an attachment point, stays the port 0.
C14_UnknownStaysZeroStays ==
  /\ LinkPortsAsReported /\ EntriesCarryLinkPorts /\ HopsCarryEntryPorts
  /\ AttachmentPortKept(src_ap, args.src)
  /\ AttachmentPortKept(dst_ap, args.dst)

(***************************************************************************)
(* C15: the host ordinal is the number a host name ends in, for every name *)
(* that ends in digits; find_device_by_name returns the first entry of the *)
(* directory with an IP or hardware address whose low-order field encodes  *)
(* that ordinal, and None when no entry has one; an address that encodes   *)
(* another ordinal (.11 for ordinal 1) does not match.                     *)
(***************************************************************************)
\* The characters of s after the last separator.
RECURSIVE LastField(_, _)
LastField(s, sep) ==
  IF Len(s) = 0 \/ SubSeq(s, Len(s), Len(s)) = sep THEN ""
  ELSE LastField(SubSeq(s, 1, Len(s) - 1), sep) \o SubSeq(s, Len(s), Len(s))

IsHex(c) == \E k \in 1..16 : HexDigits[k] = c

AllHex(s) == Len(s) > 0 /\ \A k \in 1..Len(s) : IsHex(SubSeq(s, k, k))

RECURSIVE ParseHex(_)
ParseHex(s) ==
  IF Len(s) = 0 THEN 0
  ELSE 16 * ParseHex(SubSeq(s, 1, Len(s) - 1)) +
       (CHOOSE k \in 1..16 : HexDigits[k] = SubSeq(s, Len(s), Len(s))) - 1

\* The text addresses an entry holds under a list of aliases.
Addresses(dev, keys) ==
  LET v == AsList(FirstOf(dev, keys))
  IN IF v.t = "list" THEN {v.l[k].s : k \in {j \in 1..Len(v.l) : v.l[j].t = "str"}} ELSE {}

\* The entry has an IP address whose last octet, or a hardware address whose
\* last byte, is n.
Encodes(dev, n) ==
  \/ \E ip \in Addresses(dev, <<"ipv4", "ipv4Address", "ip", "ipv4Addresses">>) :
        LET f == LastField(Strip(ip), ".")
        IN Len(f) < Len(Strip(ip)) /\ AllDigits(f) /\ ParseDec(f) = n
  \/ \E mac \in Addresses(dev, <<"mac", "macAddress", "macs">>) :
        LET f == LastField(Strip(mac), ":")
        IN AllHex(f) /\ ParseHex(f) = n

\* The positions of the directory entries that encode the host's ordinal.
Hits ==
  IF TrailingDigits(args.src) = "" THEN {}
  ELSE {k \in 1..Len(devices.l) : Encodes(devices.l[k], ParseDec(TrailingDigits(args.src)))}

FirstHit == CHOOSE k \in Hits : \A m \in Hits : k <= m

Located == pc \in {"l_found", "l_raised", "l_inferred"}

\* C15: the lookup returns the first entry that encodes the number the host
\* name ends in, None without such an entry, and the heuristic uses that number.
C15_OrdinalLookup ==
  /\ Located => src_dev = IF Hits = {} THEN JNone ELSE devices.l[FirstHit]
  /\ (pc = "l_inferred" /\ TrailingDigits(args.src) # "") => IsFallbackOf(src_ap, args.src)

\* A host name made of h's and then digits, or without digits at its end.
MininetName == LStripH(args.src) = TrailingDigits(args.src)

\* An entry before the first match, or any entry when nothing matches, holds
\* a hardware address that is not text.
NonTextMacFirst ==
  \E k \in 1..Len(devices.l) :
     /\ Hits # {} => k < FirstHit
     /\ LET v == AsList(FirstOf(devices.l[k], <<"mac", "macAddress", "macs">>))
        IN v.t = "list" /\ \E j \in 1..Len(v.l) : v.l[j].t # "str"

\* The part of C15 the code keeps: for names of the form h..hN the lookup
\* returns the first encoding entry, unless it raises on a hardware address
\* that is not text; for other names it returns None.
C15_LocatesMininetNames ==
  /\ (Located /\ MininetName /\ pc # "l_raised") =>
        src_dev = IF Hits = {} THEN JNone ELSE devices.l[FirstHit]
  /\ (Located /\ ~MininetName) => src_dev = JNone
  /\ pc = "l_raised" => MininetName /\ TrailingDigits(args.src) # "" /\ NonTextMacFirst
  /\ (pc = "l_inferred" /\ MininetName /\ TrailingDigits(args.src) # "") =>
        IsFallbackOf(src_ap, args.src)

\* Host 1 is found in second place, behind the entry of host 11.
C15_LocatesWitness ==
  /\ pc = "l_found"
  /\ args.src = "h1"
  /\ devices = JList(<<D11, D1b>>)
  /\ src_dev = D1b

(***************************************************************************)
(* C16: the breadth-first search ends on every finite graph, with cycles,  *)
(* self-loops and parallel links: each switch is marked visited and put in *)
(* the queue at most once, so the search eventually returns a path or      *)
(* not-found.                                                              *)
(***************************************************************************)
\* The switches the search can meet.
Switches == {src_switch} \cup DOMAIN graph \cup UNION {Nbrs(graph, a) : a \in DOMAIN graph}

Last(path) == path[Len(path)]

\* Every queued path ends in a visited switch, and no two end in the same one.
QueuedOnce ==
  /\ \A j \in 1..Len(q) : Last(q[j]) \in visited
  /\ \A j \in 1..Len(q), k \in 1..Len(q) : Last(q[j]) = Last(q[k]) => j = k
  /\ visited \subseteq Switches

\* What is left to do: two for every switch not yet visited, one for every
\* queued path.
Measure == 2 * Cardinality(Switches \ visited) + Len(q)

\* An iteration pops one path and queues only paths to switches that were not
\* visited before, each once, marking them; nothing is ever unmarked, and
\* what is left to do gets less.
MarksAndQueuesOnce ==
  (pc = "s_loop" /\ q # <<>>) =>
     LET kept == Len(q) - 1
         added == SubSeq(q', kept + 1, Len(q'))
     IN /\ SubSeq(q', 1, kept) = Tail(q)
        /\ visited \subseteq visited'
        /\ \A j \in 1..Len(added) : Last(added[j]) \notin visited /\ Last(added[j]) \in visited'
        /\ \A j \in 1..Len(added), k \in 1..Len(added) :
              Last(added[j]) = Last(added[k]) => j = k
        /\ Measure' < Measure

SearchReturned == pc = "s_done" /\ (sw_path = JNone \/ sw_path.t = "list")

\* C16: each switch is marked and queued at most once, every iteration
\* lessens what is left, and the search returns a path or None.
C16_SearchTerminates ==
  /\ []QueuedOnce
  /\ [][MarksAndQueuesOnce]_vars
  /\ <>SearchReturned

\* A search that goes round parallel links and a self-loop, finds the
\* destination out of reach and returns None.
C16_Witness ==
  /\ pc = "s_done"
  /\ sw_path = JNone
  /\ Len(Toward(graph, S1, S2)) = 2
  /\ Toward(graph, S2, S2) # <<>>
  /\ visited = {S1, S2}

(***************************************************************************)
(* C17: every path the search returns is a simple path of the graph: it    *)
(* starts with the source switch, ends with the destination switch, every  *)
(* two consecutive switches are joined by an adjacency entry and no switch *)
(* occurs twice; so the hop ports hold one entry per hop, and no hop's     *)
(* ports are replaced by those of another hop of the path.                 *)
(***************************************************************************)
NoSwitchTwice(p) == \A j \in 1..Len(p), k \in 1..Len(p) : p[j] = p[k] => j = k

\* C17: the returned path is a simple path from source to destination, and
\* the hop ports hold, for each hop, the pair resolved at its position.
C17_SimplePath ==
  (pc \in {"t_path", "t_ports"} /\ sw_path.t = "list") =>
     /\ IsPath(graph, sw_path.l, src_switch, dst_switch)
     /\ NoSwitchTwice(sw_path.l)
     /\ pc = "t_ports" =>
          /\ DOMAIN hop_ports = {sw_path.l[k] : k \in 1..Len(sw_path.l)}
          /\ Cardinality(DOMAIN hop_ports) = Len(sw_path.l)
          /\ \A k \in 1..Len(sw_path.l) :
                hop_ports[sw_path.l[k]] =
                  << IF k = 1 THEN JNone
                     ELSE PortToward(graph, sw_path.l[k], sw_path.l[k - 1]),
                     IF k = Len(sw_path.l) THEN JNone
                     ELSE PortToward(graph, sw_path.l[k], sw_path.l[k + 1]) >>

\* A path of three switches whose middle switch also has a link to itself.
C17_Witness ==
  /\ pc = "t_ports"
  /\ Len(sw_path.l) = 3
  /\ Toward(graph, sw_path.l[2], sw_path.l[2]) # <<>>
  /\ Cardinality(DOMAIN hop_ports) = 3
====
